---- MODULE Spec2Model ----
(***************************************************************************)
(* Model of src/disconnectSetappDevices.tsx: the TokenStore over           *)
(* LocalStorage and the SetappClient request pipeline (request,            *)
(* refreshToken, fetchActiveDevices, disconnectDeviceById, dispose).       *)
(*                                                                         *)
(* Every `await` on real I/O (LocalStorage.getItem, LocalStorage.setItem,  *)
(* fetch, Response.json) is a suspension point; the code between two       *)
(* suspension points runs as one action.                                   *)
(***************************************************************************)
EXTENDS Integers, Sequences, FiniteSets, TLC

(* ---------------------------------------------------------------- bounds *)
\* how many requests the server answers in all; a request beyond that stays
\* in flight until the client aborts it
MaxAnswers == 4
\* how many updateTokens calls the sequential TokenStore caller makes
MaxUpdates == 2
\* the deepest nesting of request() frames the liveness specification follows
MaxDepth == 3

\* the calls made on one client, numbered in the order they are made: two, so
\* that a call can overlap another one and dispose()
Chains == 1..2

(* ------------------------------------------------------------- constants *)
KEY_TOKEN == "Token"
KEY_REFRESH_TOKEN == "RefreshToken"

\* preferenceValues.setappToken / setappRefreshToken handed to the TokenStore
PreferenceDefaults == {<<"t0", "r0">>}
\* defaults tried by the sequential TokenStore caller ("" is a legal string)
TsDefaults == {<<"t0", "r0">>, <<"", "r0">>, <<"t0", "">>}
\* tokens the sequential TokenStore caller passes to updateTokens
TsTokens == {"", "a", "b"}
\* {token, refresh_token} pairs the server issues on POST /token, one after the
\* other: the client never looks into a token, so distinct pairs are the general case
Pairs == <<<<"t1", "r1">>, <<"t2", "r2">>, <<"t3", "r3">>>>
\* device ids and the device lists the server returns
DeviceIds == {111, 123}
DeviceLists == {<<>>, <<111>>, <<123>>, <<111, 123>>}
\* HTTP statuses the server answers with: ok, unauthorized, any other
Statuses == {200, 401, 500}
\* a body whose json.data does not have the expected shape
Malformed == "malformed"

VARIABLES
    kv,        \* LocalStorage: a function from the persisted keys to strings
    defaults,  \* <<defaultToken, defaultRefreshToken>> of the TokenStore
    aborted,   \* abortController.signal.aborted
    pc,        \* per chain: the suspension point it waits at
    op,        \* per chain: <<"fetchActiveDevices">> or <<"disconnectDeviceById", id>>
    stack,     \* per chain: the requests of the active request() frames
    inflight,  \* LocalStorage.setItem calls issued and not yet settled
    err,       \* per chain: the error the call rejected with
    result,    \* per chain: the value the call resolved with
    trace,     \* per chain: what the call did, in order (history)
    ts,        \* the sequential TokenStore caller
    wf         \* the workflow that drives the calls: its kind, position, events

vars == <<kv, defaults, aborted, pc, op, stack, inflight, err, result, trace, ts, wf>>
chainVars == <<aborted, pc, op, stack, err, result, trace>>

(* ------------------------------------------------------------ TokenStore *)
\* LocalStorage.setItem(k, v) once it has taken effect
setItem(store, k, v) ==
    [x \in DOMAIN store \cup {k} |-> IF x = k THEN v ELSE store[x]]

\* mutant: `||` instead of `??`, so a persisted "" falls back to the default
getToken_or(store, dflt) ==
    IF KEY_TOKEN \in DOMAIN store /\ store[KEY_TOKEN] # ""
    THEN store[KEY_TOKEN] ELSE dflt[1]

\* mutant: the persisted access token is never read back
getToken_default(store, dflt) == dflt[1]

\* (await LocalStorage.getItem(KEY_TOKEN)) ?? defaultToken
getToken(store, dflt) ==
    IF KEY_TOKEN \in DOMAIN store THEN store[KEY_TOKEN] ELSE dflt[1]

\* (await LocalStorage.getItem(KEY_REFRESH_TOKEN)) ?? defaultRefreshToken
getRefreshToken(store, dflt) ==
    IF KEY_REFRESH_TOKEN \in DOMAIN store THEN store[KEY_REFRESH_TOKEN] ELSE dflt[2]

\* the two setItem calls updateTokens hands to Promise.all
updateTokens(by, n, token, refreshToken) ==
    { [by |-> by, n |-> n, key |-> KEY_TOKEN, value |-> token],
      [by |-> by, n |-> n, key |-> KEY_REFRESH_TOKEN, value |-> refreshToken] }

(* ------------------------------------------------------- requests, errors *)
Request(method, url, body) ==
    [method |-> method, url |-> url, body |-> body, used |-> FALSE]

\* new Request("https://user-api.setapp.com/v1/devices")
DevicesRequest == Request("GET", <<"devices">>, <<>>)
\* mutant: the id is left out of the URL
DeviceRequestNoId(id) == Request("DELETE", <<"devices">>, <<>>)
\* new Request(`https://user-api.setapp.com/v1/devices/${id}`, { method: "DELETE" })
DeviceRequest(id) == Request("DELETE", <<"devices", id>>, <<>>)
\* new Request(".../v1/token", { method: "POST", body: JSON.stringify({ refresh_token }) })
TokenRequest(refresh_token) == Request("POST", <<"token">>, <<refresh_token>>)

\* Authorization: `Bearer ${token}`
Authorization(token) == <<"Bearer", token>>

Device(id) == [id |-> id, name |-> IF id = 123 THEN "macOS" ELSE "iPhone"]
Devices(ids) == [i \in 1..Len(ids) |-> Device(ids[i])]
\* devices.map((device) => device.name)
Names(devices) == [i \in 1..Len(devices) |-> devices[i].name]

NoError == [name |-> "", message |-> <<>>]
\* Error(`request error: ${request.url}`)
RequestError(url) == [name |-> "Error", message |-> <<"request error: ", url>>]
\* what fetch and the response body reject with once the signal is aborted
AbortError == [name |-> "AbortError", message |-> <<"This operation was aborted">>]
\* json.data is undefined, or a Request whose body was already sent is rebuilt
TypeError == [name |-> "TypeError", message |-> <<>>]
\* LocalStorage.setItem rejected
StorageError == [name |-> "StorageError", message |-> <<>>]

\* mutant: 200 itself is not taken as a success
IsOkExclusive(status) == status > 200 /\ status <= 299
\* resp.ok
IsOk(status) == status >= 200 /\ status <= 299
\* mutant: a plain `else` in place of `else if (resp.status === 401)`
IsAnyFailure(status) == ~(status >= 200 /\ status <= 299)
\* resp.status === 401
IsUnauthorized(status) == status = 401

\* mutant: fetch is called without the signal
signal_missing == FALSE
\* { signal: this.abortController.signal } as fetch sees it
signal == aborted

Top(stk) == stk[Len(stk)]
Pop(stk) == SubSeq(stk, 1, Len(stk) - 1)
SetTop(stk, r) == [stk EXCEPT ![Len(stk)] = r]

\* mutant: the refresh request is re-sent in place of the original one
RetryRefreshRequest(stk) == [Top(stk) EXCEPT !.method = "POST", !.url = <<"token">>]
\* the request that `return this.request(request)` re-sends after the refresh
RetryRequest(stk) == Top(stk)

Events(c, kind) == SelectSeq(trace[c], LAMBDA e : e.k = kind)
\* how many requests the server has answered so far
Answered ==
    Cardinality({x \in UNION {{<<c, i>> : i \in DOMAIN trace[c]} : c \in Chains} :
                    trace[x[1]][x[2]].k = "resp"})
Running(c) == pc[c] \notin {"idle", "done", "failed"}

\* the calls on the client are numbered in the order they are made
CanStart(c) == pc[c] = "idle" /\ \A d \in Chains : d < c => pc[d] # "idle"
\* how many pairs the server has issued so far
Issued ==
    Cardinality({x \in UNION {{<<c, i>> : i \in DOMAIN trace[c]} : c \in Chains} :
                    LET e == trace[x[1]][x[2]] IN e.k = "json" /\ Len(e.data) = 2})
\* the body of the next successful POST /token response
NextPair == Pairs[(Issued % Len(Pairs)) + 1]

LogEv(text) == [k |-> "log", text |-> text]

\* the history of a chain is kept, except where only termination is at stake
History(t) == IF wf.mode = "live" THEN [c \in Chains |-> <<>>] ELSE t
\* the URL of the response a chain got last
LastAnswered(c) ==
    LET r == Events(c, "resp") IN IF r = <<>> THEN <<>> ELSE r[Len(r)].url
\* assert(devices.length === 1, `Unexpected device count, got ${devices.length} devices.`)
AssertionError(n) ==
    [name |-> "AssertionError",
     message |-> <<"Unexpected device count, got ", n, " devices.">>]
\* Clipboard.copy rejected
ClipboardError == [name |-> "ClipboardError", message |-> <<>>]
\* preferenceValues.setappPassword
setappPassword == "password"

(* ------------------------------------------------------------------ Init *)
\* kind "client": the calls are made freely on a SetappClient; "effect": by fn
\* of the component; "main": by the function-style main; "live": as "client",
\* without history
WfInit(mode) == [mode |-> mode, pc |-> "run", err |-> NoError, events |-> <<>>]

TsInit ==
    [pc |-> "idle", n |-> 0, args |-> <<>>, before |-> <<>>, last |-> <<>>,
     failed |-> FALSE, outcome |-> "none", got |-> <<>>]

Init ==
    /\ kv = <<>>
    /\ defaults \in PreferenceDefaults
    /\ aborted = FALSE
    /\ pc = [c \in Chains |-> "idle"]
    /\ op = [c \in Chains |-> <<>>]
    /\ stack = [c \in Chains |-> <<>>]
    /\ inflight = {}
    /\ err = [c \in Chains |-> NoError]
    /\ result = [c \in Chains |-> <<>>]
    /\ trace = [c \in Chains |-> <<>>]
    /\ ts = TsInit
    /\ wf = WfInit("client")

(* ---------------------------------------------------------- SetappClient *)
\* the call rejects: nothing in the source catches an error
Throw(c, e, events) ==
    /\ pc' = [pc EXCEPT ![c] = "failed"]
    /\ err' = [err EXCEPT ![c] = e]
    /\ trace' = History([trace EXCEPT ![c] = @ \o events])
    /\ UNCHANGED <<kv, defaults, aborted, op, stack, inflight, result, ts, wf>>

\* fetchActiveDevices up to the first await inside this.request(req)
fetchActiveDevices(c) ==
    /\ CanStart(c)
    /\ op' = [op EXCEPT ![c] = <<"fetchActiveDevices">>]
    /\ stack' = [stack EXCEPT ![c] = <<DevicesRequest>>]
    /\ pc' = [pc EXCEPT ![c] = "getToken"]
    /\ trace' = History([trace EXCEPT ![c] =
            <<[k |-> "start", disposed |-> aborted],
              LogEv(<<"start fetching devices.">>)>>])
    /\ UNCHANGED <<kv, defaults, aborted, inflight, err, result, ts, wf>>

\* disconnectDeviceById up to the first await inside this.request(req)
disconnectDeviceById(c, id) ==
    /\ CanStart(c)
    /\ op' = [op EXCEPT ![c] = <<"disconnectDeviceById", id>>]
    /\ stack' = [stack EXCEPT ![c] = <<DeviceRequest(id)>>]
    /\ pc' = [pc EXCEPT ![c] = "getToken"]
    /\ trace' = History([trace EXCEPT ![c] =
            <<[k |-> "start", disposed |-> aborted],
              LogEv(<<"disconnecting device of id: ", id>>)>>])
    /\ UNCHANGED <<kv, defaults, aborted, inflight, err, result, ts, wf>>

\* this.abortController.abort(); the first call is seen by the calls in progress
dispose ==
    /\ aborted' = TRUE
    /\ trace' = History([c \in Chains |->
            IF ~aborted /\ Running(c)
            THEN Append(trace[c], [k |-> "dispose", at |-> pc[c]])
            ELSE trace[c]])
    /\ UNCHANGED <<kv, defaults, pc, op, stack, inflight, err, result, ts, wf>>

\* request(): getToken has resolved; the request is rebuilt with the headers
\* and handed to fetch
GetTokenResolved(c) ==
    /\ pc[c] = "getToken"
    /\ LET req == Top(stack[c])
           token == getToken(kv, defaults)
           read == [k |-> "getToken", value |-> token]
           sent == [k |-> "fetch", method |-> req.method, url |-> req.url,
                    body |-> req.body, auth |-> Authorization(token)]
       IN  \/ \* new Request(request, ...) of a request whose body was sent
              /\ req.used /\ req.body # <<>>
              /\ Throw(c, TypeError, <<read>>)
           \/ \* fetch called with an aborted signal
              /\ signal
              /\ Throw(c, AbortError, <<read>>)
           \/ /\ ~signal
              /\ pc' = [pc EXCEPT ![c] = "fetch"]
              /\ stack' = [stack EXCEPT ![c] = SetTop(@, [req EXCEPT !.used = TRUE])]
              /\ trace' = History([trace EXCEPT ![c] = @ \o <<read, sent>>])
              /\ UNCHANGED <<kv, defaults, aborted, op, inflight, err, result, ts, wf>>

\* the value request() returns reaches its caller: refreshToken, or the operation
ReturnResponse(c, events) ==
    IF Len(stack[c]) > 1
    THEN /\ stack' = [stack EXCEPT ![c] =
                \* in main the `req` of the 401 block shadows the parameter: from
                \* here on the frame's `req` is the POST /token it has just sent
                IF wf.mode = "main" THEN SetTop(Pop(@), Top(@)) ELSE Pop(@)]
         /\ pc' = [pc EXCEPT ![c] = "json"]
         /\ trace' = History([trace EXCEPT ![c] = @ \o events])
    ELSE IF op[c][1] = "fetchActiveDevices"
    THEN /\ pc' = [pc EXCEPT ![c] = "devicesJson"]
         /\ trace' = History([trace EXCEPT ![c] = @ \o events])
         /\ UNCHANGED stack
    ELSE /\ pc' = [pc EXCEPT ![c] = "done"]
         /\ trace' = History([trace EXCEPT ![c] =
                @ \o events \o <<LogEv(<<"device disconnected">>)>>])
         /\ UNCHANGED stack

\* request(): fetch has resolved with a response of the given status
FetchResolved(c, status) ==
    /\ pc[c] = "fetch"
    /\ ~signal
    /\ Answered < MaxAnswers
    /\ (wf.mode = "live" /\ IsUnauthorized(status)) => Len(stack[c]) < MaxDepth
    /\ LET req == Top(stack[c])
           resp == [k |-> "resp", status |-> status, url |-> req.url]
       IN  IF IsOk(status)
           THEN /\ ReturnResponse(c, <<resp>>)
                /\ UNCHANGED <<kv, defaults, aborted, op, inflight, err, result, ts, wf>>
           ELSE IF IsUnauthorized(status)
           THEN /\ pc' = [pc EXCEPT ![c] = "getRefreshToken"]
                /\ trace' = History([trace EXCEPT ![c] =
                        @ \o <<resp, LogEv(<<"token expired, refreshing">>)>>])
                /\ UNCHANGED <<kv, defaults, aborted, op, stack, inflight, err,
                               result, ts, wf>>
           ELSE Throw(c, RequestError(req.url), <<resp>>)

\* mutant: the signal is looked at when fetch is called and not afterwards, so
\* a request in flight is still answered
FetchIgnoresAbort(c) ==
    /\ pc[c] = "fetch"
    /\ aborted
    /\ ReturnResponse(c, <<[k |-> "resp", status |-> 200, url |-> Top(stack[c]).url]>>)
    /\ UNCHANGED <<kv, defaults, aborted, op, inflight, err, result, ts, wf>>

\* fetch rejects while the request is in flight and the signal is aborted
FetchRejected(c) ==
    /\ pc[c] = "fetch"
    /\ signal
    /\ Throw(c, AbortError, <<>>)

\* refreshToken(): getRefreshToken has resolved; POST /token enters request()
GetRefreshTokenResolved(c) ==
    /\ pc[c] = "getRefreshToken"
    /\ LET refresh_token == getRefreshToken(kv, defaults)
       IN  /\ stack' = [stack EXCEPT ![c] = Append(@, TokenRequest(refresh_token))]
           /\ trace' = History([trace EXCEPT ![c] =
                   Append(@, [k |-> "getRefreshToken", value |-> refresh_token])])
    /\ pc' = [pc EXCEPT ![c] = "getToken"]
    /\ UNCHANGED <<kv, defaults, aborted, op, inflight, err, result, ts, wf>>

\* mutant: updateTokens is not awaited, so request() logs and re-enters
\* request() while the two writes are still in flight
RefreshNotAwaited(c) ==
    /\ pc[c] = "json"
    /\ ~signal
    /\ LET data == NextPair
       IN  /\ inflight' = inflight \cup
                   updateTokens(c, Len(Events(c, "json")) + 1, data[1], data[2])
           /\ trace' = History([trace EXCEPT ![c] = @ \o
                   <<[k |-> "json", data |-> data],
                     LogEv(<<"token refreshed, start resending request">>)>>])
    /\ stack' = [stack EXCEPT ![c] = SetTop(@, RetryRequest(@))]
    /\ pc' = [pc EXCEPT ![c] = "getToken"]
    /\ UNCHANGED <<kv, defaults, aborted, op, err, result, ts, wf>>

\* refreshToken(): resp.json() has settled (it rejects once the signal is
\* aborted); updateTokens issues its two writes
RefreshJsonResolved(c) ==
    /\ pc[c] = "json"
    /\ \/ /\ signal
          /\ Throw(c, AbortError, <<>>)
       \/ /\ ~signal
          /\ Throw(c, TypeError, <<[k |-> "json", data |-> <<Malformed>>]>>)
       \/ /\ ~signal
          /\ LET data == NextPair
             IN  /\ inflight' = inflight \cup
                         updateTokens(c, Len(Events(c, "json")) + 1, data[1], data[2])
                 /\ trace' = History([trace EXCEPT ![c] =
                         Append(@, [k |-> "json", data |-> data])])
          /\ pc' = [pc EXCEPT ![c] = "updateTokens"]
          /\ UNCHANGED <<kv, defaults, aborted, op, stack, err, result, ts, wf>>

\* one LocalStorage.setItem of a chain's updateTokens takes effect; when it is
\* the last one Promise.all resolves, refreshToken returns and request() logs
\* and re-enters request()
SetItemResolved(c, w) ==
    /\ w \in inflight /\ w.by = c
    /\ kv' = setItem(kv, w.key, w.value)
    /\ inflight' = inflight \ {w}
    /\ LET written == [k |-> "setItem", key |-> w.key, value |-> w.value]
           last == \A x \in inflight' : x.by # c
       IN  IF pc[c] = "updateTokens" /\ last
           THEN /\ trace' = History([trace EXCEPT ![c] = @ \o
                       <<written, [k |-> "updated"],
                         LogEv(<<"token refreshed, start resending request">>)>>])
                /\ stack' = [stack EXCEPT ![c] = SetTop(@, RetryRequest(@))]
                /\ pc' = [pc EXCEPT ![c] = "getToken"]
           ELSE /\ trace' = History([trace EXCEPT ![c] = Append(@, written)])
                /\ UNCHANGED <<stack, pc>>
    /\ UNCHANGED <<defaults, aborted, op, err, result, ts, wf>>

\* one LocalStorage.setItem rejects: Promise.all rejects at once, the other
\* write stays in flight
SetItemRejected(c, w) ==
    /\ w \in inflight /\ w.by = c
    /\ inflight' = inflight \ {w}
    /\ IF pc[c] = "updateTokens"
       THEN /\ pc' = [pc EXCEPT ![c] = "failed"]
            /\ err' = [err EXCEPT ![c] = StorageError]
       ELSE UNCHANGED <<pc, err>>
    /\ UNCHANGED <<kv, defaults, aborted, op, stack, result, trace, ts, wf>>

\* fetchActiveDevices(): resp.json() has settled; the body belongs to the fetch
\* that was given the signal, so reading it rejects once the signal is aborted
DevicesJsonResolved(c) ==
    /\ pc[c] = "devicesJson"
    /\ \/ /\ signal
          /\ Throw(c, AbortError, <<>>)
       \/ /\ ~signal
          /\ Throw(c, TypeError, <<[k |-> "devices", data |-> <<Malformed>>]>>)
       \/ \* main, after re-sending POST /token: json.data is the token pair, and
          \* its `length` is undefined, which `> 0` takes as no device
          /\ ~signal
          /\ LastAnswered(c) = <<"token">>
          /\ result' = [result EXCEPT ![c] = <<>>]
          /\ trace' = History([trace EXCEPT ![c] =
                  Append(@, [k |-> "devices", data |-> <<>>, body |-> NextPair])])
          /\ pc' = [pc EXCEPT ![c] = "done"]
          /\ UNCHANGED <<kv, defaults, aborted, op, stack, inflight, err, ts, wf>>
       \/ /\ ~signal
          /\ LastAnswered(c) # <<"token">>
          /\ \E ids \in DeviceLists :
                LET devices == Devices(ids)
                IN  /\ result' = [result EXCEPT ![c] = devices]
                    /\ trace' = History([trace EXCEPT ![c] = @ \o
                            <<[k |-> "devices", data |-> devices]>> \o
                            (IF Len(devices) > 0
                             THEN <<LogEv(<<"fetched devices: ", Names(devices)>>)>>
                             ELSE <<>>)])
          /\ pc' = [pc EXCEPT ![c] = "done"]
          /\ UNCHANGED <<kv, defaults, aborted, op, stack, inflight, err, ts, wf>>

Next ==
    \/ \E c \in Chains : fetchActiveDevices(c)
    \/ \E c \in Chains, id \in DeviceIds : disconnectDeviceById(c, id)
    \/ dispose
    \/ \E c \in Chains : GetTokenResolved(c)
    \/ \E c \in Chains, status \in Statuses : FetchResolved(c, status)
    \/ \E c \in Chains : FetchRejected(c)
    \/ \E c \in Chains : GetRefreshTokenResolved(c)
    \/ \E c \in Chains : RefreshJsonResolved(c)
    \/ \E c \in Chains, w \in inflight : SetItemResolved(c, w)
    \/ \E c \in Chains, w \in inflight : SetItemRejected(c, w)
    \/ \E c \in Chains : DevicesJsonResolved(c)

Spec == Init /\ [][Next]_vars

(* ------------------------------------- TokenStore used by one sequential caller *)
\* the caller is owner 0 of the writes in flight; the chains are numbered from 1
InitTS ==
    /\ kv = <<>>
    /\ defaults \in TsDefaults
    /\ aborted = FALSE
    /\ pc = [c \in Chains |-> "idle"]
    /\ op = [c \in Chains |-> <<>>]
    /\ stack = [c \in Chains |-> <<>>]
    /\ inflight = {}
    /\ err = [c \in Chains |-> NoError]
    /\ result = [c \in Chains |-> <<>>]
    /\ trace = [c \in Chains |-> <<>>]
    /\ ts = TsInit
    /\ wf = WfInit("client")

\* expect(await ts.getToken())
TsGetToken ==
    /\ ts.pc = "idle"
    /\ \A i \in DOMAIN ts.got : ts.got[i][1] # "getToken"
    /\ ts' = [ts EXCEPT !.got = Append(@, <<"getToken", getToken(kv, defaults)>>)]
    /\ UNCHANGED <<kv, defaults, inflight, chainVars, wf>>

\* expect(await ts.getRefreshToken())
TsGetRefreshToken ==
    /\ ts.pc = "idle"
    /\ \A i \in DOMAIN ts.got : ts.got[i][1] # "getRefreshToken"
    /\ ts' = [ts EXCEPT !.got =
            Append(@, <<"getRefreshToken", getRefreshToken(kv, defaults)>>)]
    /\ UNCHANGED <<kv, defaults, inflight, chainVars, wf>>

\* await ts.updateTokens(token, refreshToken): both writes are issued
TsUpdateTokens(token, refreshToken) ==
    /\ ts.pc = "idle"
    /\ ts.n < MaxUpdates
    /\ inflight' = inflight \cup updateTokens(0, ts.n + 1, token, refreshToken)
    /\ ts' = [ts EXCEPT !.pc = "updateTokens", !.n = @ + 1,
                        !.args = <<token, refreshToken>>, !.before = kv,
                        !.outcome = "none", !.got = <<>>]
    /\ UNCHANGED <<kv, defaults, chainVars, wf>>

\* a write of the caller takes effect; Promise.all resolves on the last one
TsSetItemResolved(w) ==
    /\ w \in inflight /\ w.by = 0
    /\ kv' = setItem(kv, w.key, w.value)
    /\ inflight' = inflight \ {w}
    /\ IF ts.pc = "updateTokens" /\ w.n = ts.n /\ \A x \in inflight' : x.n # ts.n
       THEN ts' = [ts EXCEPT !.pc = "idle", !.last = ts.args, !.outcome = "ok"]
       ELSE UNCHANGED ts
    /\ UNCHANGED <<defaults, chainVars, wf>>

\* a write of the caller rejects; Promise.all rejects at once
TsSetItemRejected(w) ==
    /\ w \in inflight /\ w.by = 0
    /\ inflight' = inflight \ {w}
    /\ IF ts.pc = "updateTokens" /\ w.n = ts.n
       THEN ts' = [ts EXCEPT !.pc = "idle", !.failed = TRUE, !.outcome = "failed"]
       ELSE UNCHANGED ts
    /\ UNCHANGED <<kv, defaults, chainVars, wf>>

NextTS ==
    \/ TsGetToken
    \/ TsGetRefreshToken
    \/ \E token \in TsTokens, refreshToken \in TsTokens :
            TsUpdateTokens(token, refreshToken)
    \/ \E w \in inflight : TsSetItemResolved(w)
    \/ \E w \in inflight : TsSetItemRejected(w)

SpecTS == InitTS /\ [][NextTS]_vars

(* ------------------------------------------------ the workflow: fn and main *)
\* fn and main make two calls in a row: chain 1 fetches, chain 2 disconnects
InitWorkflow(mode) ==
    /\ kv = <<>>
    /\ defaults \in PreferenceDefaults
    /\ aborted = FALSE
    /\ pc = [c \in Chains |-> "idle"]
    /\ op = [c \in Chains |-> <<>>]
    /\ stack = [c \in Chains |-> <<>>]
    /\ inflight = {}
    /\ err = [c \in Chains |-> NoError]
    /\ result = [c \in Chains |-> <<>>]
    /\ trace = [c \in Chains |-> <<>>]
    /\ ts = TsInit
    /\ wf = WfInit(mode)

WfStep(to, e, events) ==
    /\ wf' = [wf EXCEPT !.pc = to, !.err = e, !.events = @ \o events]
    /\ UNCHANGED <<kv, defaults, inflight, ts, chainVars>>

\* fn: setappClient.fetchActiveDevices(); main: the first block
StartFetching ==
    /\ wf.pc = "run"
    /\ fetchActiveDevices(1)

\* no device: log, and wait for the 4 s delay
NoActiveDevices ==
    /\ wf.pc = "run" /\ pc[1] = "done" /\ pc[2] = "idle"
    /\ Len(result[1]) = 0
    /\ WfStep("delay", NoError, <<LogEv(<<"there is no active devices, closing...">>)>>)

\* assert(devices.length === 1, ...) throws
AssertFails ==
    /\ wf.pc = "run" /\ pc[1] = "done" /\ pc[2] = "idle"
    /\ Len(result[1]) > 1
    /\ WfStep("failed", AssertionError(Len(result[1])), <<>>)

\* exactly one device: disconnect devices.at(0)
Disconnect ==
    /\ wf.pc = "run" /\ pc[1] = "done"
    /\ Len(result[1]) = 1
    /\ disconnectDeviceById(2, result[1][1].id)

\* mutant: the secret is copied whether or not the disconnect call succeeded
ClipboardCopyAnyway ==
    /\ wf.pc = "run" /\ pc[2] \in {"done", "failed"}
    /\ WfStep("copy", NoError, <<[k |-> "copy", value |-> setappPassword]>>)

\* the disconnect call has returned: Clipboard.copy(preferenceValues.setappPassword)
ClipboardCopy ==
    /\ wf.pc = "run" /\ pc[2] = "done"
    /\ WfStep("copy", NoError, <<[k |-> "copy", value |-> setappPassword]>>)

ClipboardCopyResolved ==
    /\ wf.pc = "copy"
    /\ WfStep("delay", NoError, <<LogEv(<<"done.">>)>>)

ClipboardCopyRejected ==
    /\ wf.pc = "copy"
    /\ WfStep("failed", ClipboardError, <<>>)

\* mutant: the window is closed in a `finally`, after a failure too
closeMainWindow_finally ==
    /\ \/ wf.pc \in {"delay", "failed"}
       \/ wf.pc = "run" /\ \E c \in Chains : pc[c] = "failed"
    /\ WfStep("closed", NoError, <<[k |-> "close"]>>)

\* delay(4000) is over: closeMainWindow({ popToRootType: PopToRootType.Immediate })
closeMainWindow ==
    /\ wf.pc = "delay"
    /\ WfStep("closed", NoError, <<[k |-> "close"]>>)

\* the steps a call takes by itself once it is made, but for the abort
RequestStep(c) ==
    \/ GetTokenResolved(c)
    \/ \E status \in Statuses : FetchResolved(c, status)
    \/ GetRefreshTokenResolved(c)
    \/ RefreshJsonResolved(c)
    \/ \E w \in inflight : SetItemResolved(c, w)
    \/ \E w \in inflight : SetItemRejected(c, w)
    \/ DevicesJsonResolved(c)

ChainStep(c) == RequestStep(c) \/ FetchRejected(c)

\* the component: fn runs, and the cleanup of the effect may dispose the client
\* at any time
NextFn ==
    \/ StartFetching
    \/ NoActiveDevices
    \/ AssertFails
    \/ Disconnect
    \/ ClipboardCopy
    \/ ClipboardCopyResolved
    \/ ClipboardCopyRejected
    \/ closeMainWindow
    \/ dispose
    \/ \E c \in Chains : ChainStep(c)

SpecFn == InitWorkflow("effect") /\ [][NextFn]_vars

\* main: the same steps over main's own request(), which is given no signal
NextMain ==
    \/ StartFetching
    \/ NoActiveDevices
    \/ AssertFails
    \/ Disconnect
    \/ ClipboardCopy
    \/ ClipboardCopyResolved
    \/ ClipboardCopyRejected
    \/ closeMainWindow
    \/ \E c \in Chains : RequestStep(c)

SpecMain == InitWorkflow("main") /\ [][NextMain]_vars

(* ------------------------------------------------------------ termination *)
\* the event loop runs every continuation that is ready, the server answers
\* every request and LocalStorage settles every write
Fairness == \A c \in Chains : WF_vars(ChainStep(c))

SpecLive == InitWorkflow("live") /\ [][Next]_vars /\ Fairness

(* ================================================================ claims *)
Calls(c) == Events(c, "fetch")
Resps(c) == Events(c, "resp")
Statuses3(c) == [i \in 1..Len(Resps(c)) |-> Resps(c)[i].status]
\* the positions in a chain's trace of the events of one kind
Positions(c, kind) == {i \in DOMAIN trace[c] : trace[c][i].k = kind}
HasLog(c, text) == \E i \in Positions(c, "log") : trace[c][i].text = text
DisposedAt(c) == {trace[c][i].at : i \in Positions(c, "dispose")}
StartedDisposed(c) == trace[c] # <<>> /\ trace[c][1].disposed
\* the request an operation starts with
FirstRequestOf(c) ==
    IF op[c][1] = "fetchActiveDevices"
    THEN [method |-> "GET", url |-> <<"devices">>]
    ELSE [method |-> "DELETE", url |-> <<"devices", op[c][2]>>]

\* C1: a call answered 401, then 2xx to the refresh, then 2xx to the retry makes
\* exactly three network calls: the original request, POST /token, the original
\* request again; and both writes of updateTokens(refreshed pair) have landed
\* and updateTokens has completed before the access token of the third call is
\* read.
C1_RefreshThenRetry ==
    \A c \in Chains :
        (/\ Len(Resps(c)) >= 3
         /\ Resps(c)[1].status = 401
         /\ Resps(c)[2].status = 200
         /\ Resps(c)[3].status = 200)
        => /\ Len(Calls(c)) = 3
           /\ Calls(c)[1].method = FirstRequestOf(c).method
           /\ Calls(c)[1].url = FirstRequestOf(c).url
           /\ Calls(c)[2].method = "POST" /\ Calls(c)[2].url = <<"token">>
           /\ Calls(c)[3].method = Calls(c)[1].method
           /\ Calls(c)[3].url = Calls(c)[1].url
           /\ \E j \in Positions(c, "json"), t \in Positions(c, "setItem"),
                 r \in Positions(c, "setItem"), u \in Positions(c, "updated"),
                 g \in Positions(c, "getToken"), f \in Positions(c, "fetch") :
                 /\ j < t /\ j < r /\ t < u /\ r < u /\ u < g /\ g + 1 = f
                 /\ trace[c][t].key = "Token"
                 /\ trace[c][t].value = trace[c][j].data[1]
                 /\ trace[c][r].key = "RefreshToken"
                 /\ trace[c][r].value = trace[c][j].data[2]
                 /\ \A x \in Positions(c, "fetch") : x <= f

C1_Witness ==
    \E c \in Chains : pc[c] = "done" /\ Statuses3(c) = <<401, 200, 200>>

\* C2: one call issues at most one POST /token and re-sends the original
\* request at most once, whatever the server answers.
C2_AtMostOneRefresh ==
    \A c \in Chains :
        /\ Cardinality({i \in DOMAIN Calls(c) : Calls(c)[i].url = <<"token">>}) <= 1
        /\ Cardinality({i \in DOMAIN Calls(c) : Calls(c)[i].url # <<"token">>}) <= 2

\* C3: a response that is neither 2xx nor 401 ends the call: it fails with the
\* request error carrying the URL of the request that got that response, makes
\* no further network call and writes nothing to the token store.
C3_OtherStatusIsTerminal ==
    \A c \in Chains : \A i \in Positions(c, "resp") :
        (trace[c][i].status # 401 /\ ~(trace[c][i].status \in 200..299))
        => /\ i = Len(trace[c])
           /\ trace[c][i - 1].k = "fetch"
           /\ pc[c] = "failed"
           /\ err[c] = [name |-> "Error",
                        message |-> <<"request error: ", trace[c][i - 1].url>>]
           /\ \A w \in inflight : w.by # c

C3_Witness ==
    \E c \in Chains :
        /\ pc[c] = "failed" /\ err[c].name = "Error"
        /\ Statuses3(c) = <<401, 200, 500>>

C5_AfterDispose ==
    \A c \in Chains :
        StartedDisposed(c)
        => /\ pc[c] # "done"
           /\ pc[c] = "failed" => err[c].name = "AbortError"
           /\ Positions(c, "resp") = {}
           /\ Positions(c, "setItem") = {}
           /\ \A w \in inflight : w.by # c

C5_Witness ==
    \E c \in Chains : StartedDisposed(c) /\ pc[c] = "failed"

\* C6: for one sequential caller none of whose storage writes has failed,
\* getToken and getRefreshToken return the defaults while no updateTokens has
\* completed, and afterwards the two arguments of the last completed call.
C6_ReadYourWrites ==
    (ts.pc = "idle" /\ ~ts.failed)
    => \A i \in DOMAIN ts.got :
          ts.got[i][2] =
              IF ts.got[i][1] = "getToken"
              THEN (IF ts.last = <<>> THEN defaults[1] ELSE ts.last[1])
              ELSE (IF ts.last = <<>> THEN defaults[2] ELSE ts.last[2])

C6_Witness ==
    /\ ts.pc = "idle" /\ ~ts.failed /\ ts.n = 2
    /\ ts.last = <<"", "b">>
    /\ Len(ts.got) = 2

\* C7: in every reachable state the persisted pair is both absent, or the two
\* arguments of one single updateTokens call.
C7_PairOfOneUpdate ==
    \/ DOMAIN kv = {}
    \/ /\ DOMAIN kv = {KEY_TOKEN, KEY_REFRESH_TOKEN}
       /\ \E c \in Chains : \E j \in Positions(c, "json") :
             trace[c][j].data = <<kv[KEY_TOKEN], kv[KEY_REFRESH_TOKEN]>>

\* C8: when updateTokens fails, neither persisted value has changed from its
\* value before the call.
C8_FailsAsUnit ==
    (ts.pc = "idle" /\ ts.outcome = "failed") => kv = ts.before

\* C9: a call whose first response is 2xx makes exactly one network call,
\* issues no POST /token, emits neither refresh log event, writes nothing to
\* the token store, does not fail with a request error, and
\* fetchActiveDevices returns the data of that response.
C9_FirstResponseOk ==
    \A c \in Chains :
        (Resps(c) # <<>> /\ Resps(c)[1].status = 200)
        => /\ Len(Calls(c)) = 1 /\ Len(Resps(c)) = 1
           /\ Calls(c)[1].url # <<"token">>
           /\ ~HasLog(c, <<"token expired, refreshing">>)
           /\ ~HasLog(c, <<"token refreshed, start resending request">>)
           /\ Positions(c, "setItem") = {} /\ Positions(c, "updated") = {}
           /\ \A w \in inflight : w.by # c
           /\ pc[c] = "failed" => err[c].name \in {"AbortError", "TypeError"}
           /\ (pc[c] = "done" /\ op[c][1] = "fetchActiveDevices")
              => \E j \in Positions(c, "devices") : result[c] = trace[c][j].data

C9_Witness ==
    \E c \in Chains :
        /\ pc[c] = "done" /\ Statuses3(c) = <<200>>
        /\ Len(result[c]) = 1 /\ result[c][1].id = 123

\* C10 (state part): disconnectDeviceById(id) answered 2xx makes exactly one
\* network call, DELETE /devices/{id}; 'disconnecting' is logged before the
\* call, 'device disconnected' only as the last thing of a call that has
\* succeeded, and never by a call that fails.
C10_Inv ==
    \A c \in Chains :
        (op[c] # <<>> /\ op[c][1] = "disconnectDeviceById")
        => /\ trace[c][2] = LogEv(<<"disconnecting device of id: ", op[c][2]>>)
           /\ \A f \in Positions(c, "fetch") : f > 2
           /\ (Resps(c) # <<>> /\ Resps(c)[1].status = 200)
              => /\ Len(Calls(c)) = 1
                 /\ Calls(c)[1].method = "DELETE"
                 /\ Calls(c)[1].url = <<"devices", op[c][2]>>
                 /\ pc[c] = "done"
           /\ \A i \in Positions(c, "log") :
                 trace[c][i].text = <<"device disconnected">>
                 => /\ pc[c] = "done"
                    /\ i = Len(trace[c])
                    /\ trace[c][i - 1].k = "resp" /\ trace[c][i - 1].status = 200
           /\ pc[c] = "done" => HasLog(c, <<"device disconnected">>)

\* C10 (step part): every request of disconnectDeviceById carries as Bearer
\* token the access token the store holds when the request is sent.
C10_Auth ==
    \A c \in Chains :
        (pc[c] = "getToken" /\ pc'[c] = "fetch" /\ op[c][1] = "disconnectDeviceById")
        => trace'[c][Len(trace'[c])].auth =
              <<"Bearer", IF "Token" \in DOMAIN kv THEN kv["Token"] ELSE defaults[1]>>

\* C10: both parts
C10_DisconnectDeviceById == []C10_Inv /\ [][C10_Auth]_vars

C10_Witness ==
    \E c \in Chains :
        /\ pc[c] = "done" /\ op[c] = <<"disconnectDeviceById", 111>>
        /\ Len(Calls(c)) = 1
        /\ Calls(c)[1].auth = <<"Bearer", "t1">>

\* the first request sent after position i of a chain's trace, 0 if there is none
NextFetch(c, i) ==
    LET later == {f \in Positions(c, "fetch") : f > i}
    IN  IF later = {} THEN 0 ELSE CHOOSE f \in later : \A g \in later : f <= g
\* the last event of one kind before position i of a chain's trace, 0 if none
LastBefore(c, kind, i) ==
    LET earlier == {j \in Positions(c, kind) : j < i}
    IN  IF earlier = {} THEN 0 ELSE CHOOSE j \in earlier : \A g \in earlier : g <= j
\* no other call has been made on the client
Sequential(c) == \A d \in Chains \ {c} : trace[d] = <<>>
IsTokenCall(e) == e.method = "POST" /\ e.url = <<"token">>

\* C11: in a call that runs alone, the POST /token sent after a 401 carries the
\* Bearer token of the request that got the 401, and the request sent after a
\* completed refresh carries the access token of the refresh response, which
\* is not the stale one.
C11_BearerTokens ==
    \A c \in Chains :
        Sequential(c)
        => /\ \A i \in Positions(c, "resp") :
                 (trace[c][i].status = 401 /\ NextFetch(c, i) # 0)
                 => /\ IsTokenCall(trace[c][NextFetch(c, i)])
                    /\ trace[c][NextFetch(c, i)].auth = trace[c][i - 1].auth
           /\ \A u \in Positions(c, "updated") :
                 NextFetch(c, u) # 0
                 => LET j == LastBefore(c, "json", u)
                        stale == trace[c][LastBefore(c, "fetch", j)].auth
                        retried == trace[c][NextFetch(c, u)]
                    IN  /\ retried.auth = <<"Bearer", trace[c][j].data[1]>>
                        /\ retried.auth # stale

C11_Witness ==
    /\ Sequential(1) /\ pc[1] = "done"
    /\ op[1] = <<"disconnectDeviceById", 123>>
    /\ Len(Calls(1)) = 3
    /\ Calls(1)[1].auth = <<"Bearer", "t0">>
    /\ Calls(1)[2].auth = <<"Bearer", "t0">>
    /\ Calls(1)[3].auth = <<"Bearer", "t1">>
    /\ Calls(1)[3].method = "DELETE"

\* C12 as claimed: a call whose POST /token is answered with a status that is
\* neither 2xx nor 401 fails with the request error of that POST and sends
\* nothing after it, has sent its original request only once, has not logged
\* 'token refreshed, start resending request' and has written nothing to the
\* store.
C12_RefreshFailureLeavesNoTrace ==
    \A c \in Chains : \A i \in Positions(c, "resp") :
        (/\ trace[c][i].url = <<"token">>
         /\ trace[c][i].status # 401 /\ ~(trace[c][i].status \in 200..299))
        => /\ pc[c] = "failed"
           /\ err[c] = RequestError(<<"token">>)
           /\ i = Len(trace[c])
           /\ Cardinality({f \in Positions(c, "fetch") : ~IsTokenCall(trace[c][f])}) = 1
           /\ ~HasLog(c, <<"token refreshed, start resending request">>)
           /\ Positions(c, "setItem") = {}
           /\ \A w \in inflight : w.by # c

\* C17: 'token expired, refreshing' is logged right after each 401 response
\* and before the POST /token that follows; 'token refreshed, start resending
\* request' is logged right after an updateTokens has completed, with both its
\* writes landed, after no more 'expired' events than there were before it,
\* and before the retried request.
C17_LogOrder ==
    \A c \in Chains :
        /\ \A i \in Positions(c, "resp") :
              trace[c][i].status = 401
              => /\ trace[c][i + 1] = LogEv(<<"token expired, refreshing">>)
                 /\ NextFetch(c, i) # 0
                    => /\ NextFetch(c, i) > i + 1
                       /\ IsTokenCall(trace[c][NextFetch(c, i)])
        /\ \A l \in Positions(c, "log") :
              trace[c][l].text = <<"token refreshed, start resending request">>
              => LET j == LastBefore(c, "json", l)
                     expired == {e \in Positions(c, "log") : e < l /\
                                    trace[c][e].text = <<"token expired, refreshing">>}
                     refreshed == {e \in Positions(c, "log") : e <= l /\
                                    trace[c][e].text =
                                        <<"token refreshed, start resending request">>}
                 IN  /\ trace[c][l - 1].k = "updated"
                     /\ j # 0
                     /\ \E t, r \in Positions(c, "setItem") :
                           /\ j < t /\ t < l /\ j < r /\ r < l
                           /\ trace[c][t].key = KEY_TOKEN
                           /\ trace[c][t].value = trace[c][j].data[1]
                           /\ trace[c][r].key = KEY_REFRESH_TOKEN
                           /\ trace[c][r].value = trace[c][j].data[2]
                     /\ Cardinality(expired) >= Cardinality(refreshed)
                     /\ \A f \in Positions(c, "fetch") : ~(j < f /\ f < l + 1)

C17_Witness ==
    \E c \in Chains :
        /\ op[c] = <<"fetchActiveDevices">> /\ pc[c] = "done"
        /\ HasLog(c, <<"token refreshed, start resending request">>)
        /\ Len(Calls(c)) = 3

\* C18 as claimed: once dispose() has been called the token store does not
\* change any more.
C18_NoWriteAfterDispose == [][aborted => kv' = kv]_vars

\* C13 as claimed: every call that has been made ends, done or failed.
C13_Terminates ==
    \A c \in Chains : (pc[c] # "idle") ~> (pc[c] \in {"done", "failed"})

\* C14 as claimed: when a request for the device list or a DELETE is answered
\* 401 and the POST /token that follows is answered 2xx, then once the refresh
\* is over the request request() is about to send, and the request it sends
\* next, have the method and the URL of the request that got the 401.
C14_ResendsOriginal ==
    \A c \in Chains : \A n \in DOMAIN Resps(c) :
        (/\ Resps(c)[n].status = 401 /\ ~IsTokenCall(Calls(c)[n])
         /\ Len(Resps(c)) > n /\ Resps(c)[n + 1].status = 200)
        => /\ (/\ Len(Resps(c)) = n + 1 /\ pc[c] = "getToken"
               /\ trace[c][Len(trace[c])] =
                     LogEv(<<"token refreshed, start resending request">>))
              => /\ Top(stack[c]).method = Calls(c)[n].method
                 /\ Top(stack[c]).url = Calls(c)[n].url
           /\ Len(Calls(c)) > n + 1
              => /\ Calls(c)[n + 2].method = Calls(c)[n].method
                 /\ Calls(c)[n + 2].url = Calls(c)[n].url

\* the DELETE requests sent so far, as <<chain, position>>
Deletes ==
    {x \in UNION {{<<c, f>> : f \in Positions(c, "fetch")} : c \in Chains} :
        trace[x[1]][x[2]].method = "DELETE"}
Copies == {i \in DOMAIN wf.events : wf.events[i].k = "copy"}
Closes == {i \in DOMAIN wf.events : wf.events[i].k = "close"}
Fetched == pc[1] = "done"

C16_Inv ==
    /\ Cardinality(Closes) <= 1
    /\ (wf.pc = "closed") <=> (Closes # {})
    /\ Closes # {}
       => /\ Closes = {Len(wf.events)}
          /\ \A c \in Chains : ~Running(c)
          /\ inflight = {}
          /\ \/ /\ Fetched /\ Len(result[1]) = 0 /\ op[2] = <<>>
                /\ wf.events = <<LogEv(<<"there is no active devices, closing...">>),
                                 [k |-> "close"]>>
             \/ /\ Fetched /\ Len(result[1]) = 1 /\ pc[2] = "done"
                /\ wf.events = <<[k |-> "copy", value |-> setappPassword],
                                 LogEv(<<"done.">>), [k |-> "close"]>>
    /\ (wf.pc = "failed" \/ \E c \in Chains : pc[c] = "failed") => Closes = {}

\* C16 (step part): once fn has ended normally and waits for its delay, the
\* next thing it does is to call closeMainWindow.
C16_Step == wf.pc = "delay" => (wf' = wf \/ wf'.pc = "closed")

\* C16: both parts
C16_CloseOnce == []C16_Inv /\ [][C16_Step]_vars

C16_Witness ==
    /\ wf.pc = "closed" /\ Closes = {2}
    /\ Statuses3(1) = <<401, 200, 200>> /\ result[1] = <<>>

====
